---- MODULE Spec2Model ----
(***************************************************************************)
(* dispatch-remote-workflow-sync: one invocation of run() (src/main.ts),   *)
(* the Run Correlator getWorkflowRunId and the Completion Waiter           *)
(* waitWorkflowRunFinish (src/utils/workflow.ts) and the retry primitives  *)
(* of src/utils/api.ts they are built on.                                  *)
(*                                                                         *)
(* One action is one stretch of code between two suspension points: a      *)
(* remote call with its response, followed by the code that handles the    *)
(* response up to and including the next timer.  Time is Date.now() in     *)
(* milliseconds; a remote call takes a latency drawn from Latencies and a  *)
(* timer takes exactly its delay.  The program reads the clock only as the *)
(* time elapsed since a start time it took earlier, so the clock is        *)
(* counted from the start of the current phase (Correlator, Waiter).       *)
(***************************************************************************)
EXTENDS Integers, Sequences, FiniteSets, TLC

VARIABLES
  pc,              \* position of the single thread of control
  now,             \* Date.now(), ms since the current phase read its startTime
  cfg,             \* ActionConfig of the invocation (NoConfig before getConfig)
  phases,          \* phases of run() started so far, in order
  lastCall,        \* remote endpoint called by the last step ("none" if none)
  dispatchCount,   \* createWorkflowDispatch requests sent
  error,           \* error propagating to run()'s catch (NoError if none)
  lastError,       \* error the remote call of the last step threw (NoError if none)
  dispatchStatus,  \* response status of createWorkflowDispatch (0 before it)
  dispatchedInputs,\* inputs sent with createWorkflowDispatch
  invocation,      \* calls of run() since the module was loaded
  markersUsed,     \* marker of each dispatch since the module was loaded
  failedMsgs,      \* messages passed to core.setFailed, in order
  runIdOut,        \* values passed to core.setOutput('run_id', ..), in order
  timeOut,         \* core.setOutput('time', ..) was called
  \* the remote platform
  exists,          \* run IDs the run listing returns
  markerIn,        \* runs one of whose job step names embeds DISTINCT_ID
  runState,        \* status and conclusion of the run being awaited
  crowd,           \* unrelated runs of the workflow newer than those of exists
  \* getWorkflowRunId
  corrStartTime, corrElapsedTime, workflowRunIds, idx, probed, matchSeen,
  fatalSeen, corrOutcome, workflowRunId,
  \* retryOrDie
  rodStartTime, rodElapsedTime, rodTimeoutMs,
  rodCalls,        \* invocations of retryFunc by the current retryOrDie
  rodEmpties,      \* those of them that returned an empty list
  \* waitWorkflowRunFinish
  waitStartTime, waitElapsedTime, waitRunId, polls, roundInTime,
  failedJobsFetches, waitOutcome,
  \* getWorkflowRunActiveJobUrlRetry
  urlStartTime, urlElapsedTime,
  \* retryOnError
  roeStartTime, roeElapsedTime, roeWarnings,
  roeCalls,        \* invocations of func by the current retryOnError
  roeFailedAt,     \* time since its start at which func failed last
  \* the Gateway wrappers of src/utils/api.ts, one call at a time
  gwIn,            \* configuration and remote response of the call
  gwOut            \* the wrapper called, its request and what it gave back

runVars   == <<pc, now, cfg, phases, lastCall, dispatchCount, error, lastError,
               dispatchStatus, dispatchedInputs, invocation, markersUsed>>
outVars   == <<failedMsgs, runIdOut, timeOut>>
worldVars == <<exists, markerIn, runState>>
corrVars  == <<corrStartTime, corrElapsedTime, workflowRunIds, idx, probed,
               matchSeen, fatalSeen, corrOutcome, workflowRunId>>
rodVars   == <<rodStartTime, rodElapsedTime, rodTimeoutMs, rodCalls,
               rodEmpties>>
waitVars  == <<waitStartTime, waitElapsedTime, waitRunId, polls, roundInTime,
               failedJobsFetches, waitOutcome>>
urlVars   == <<urlStartTime, urlElapsedTime>>
roeVars   == <<roeStartTime, roeElapsedTime, roeWarnings, roeCalls,
               roeFailedAt>>
gwVars    == <<gwIn, gwOut>>
mainVars  == <<runVars, outVars, worldVars, corrVars, rodVars, waitVars, urlVars,
               roeVars, crowd>>
vars == <<mainVars, gwVars>>

----------------------------------------------------------------------------
(* Bounds of the model *)

MaxRunId == 2
MaxLatency == 400
MaxTimeoutSeconds == 6
MaxInvocations == 2
\* the longest list in one response (workflows of a page, runs, jobs)
MaxListed == 2
\* the pages of the workflow listing
MaxPages == 2

RunIds == 0..MaxRunId
Latencies == {0, MaxLatency}
\* an object is the set of its <<key, value>> entries; config.workflowInputs
\* spreads to no entry when the input is not given
NoInputs == {}
\* the configurations: workflow_timeout_seconds, poll_interval_ms, whether
\* the workflow is given by filename, and workflow_inputs
Configs ==
  {[kind |-> "config", workflowTimeoutSeconds |-> 1,
    pollIntervalMs |-> 5000, workflowIsString |-> TRUE,
    workflowInputs |-> NoInputs],
   [kind |-> "config", workflowTimeoutSeconds |-> MaxTimeoutSeconds,
    pollIntervalMs |-> 2000, workflowIsString |-> FALSE,
    workflowInputs |-> {<<"cake", "pie">>, <<"distinct_id", "mine">>}]}

(* Constants of the program *)

WORKFLOW_FETCH_TIMEOUT_MS == 60000
WORKFLOW_JOB_STEPS_RETRY_MS == 5000
RetryOrDiePauseMs == 1000
RetryOnErrorPauseMs == 1000
ActiveJobUrlPauseMs == 200
ActiveJobUrlTimeoutMs == 1000
RunStateRetryTimeoutMs == 400

NoConfig == [kind |-> "none"]
NoError == <<>>
NoRun == -1
NoProbe == [id |-> NoRun, steps |-> {}]
Null == "null"

----------------------------------------------------------------------------
(* Values *)

Completed == "completed"
Statuses == {Null, "queued", "in_progress", Completed}

Success == "success"
FailureConclusions ==
  {"action_required", "cancelled", "failure", "neutral", "skipped", "timed_out"}
\* "stale" stands for any conclusion the enum does not list
Conclusions == {Success} \cup FailureConclusions \cup {Null, "stale"}

\* the marker of this invocation and the marker of some other dispatch
DISTINCT_ID == "d1"
OtherId == "d2"
\* a step name is the sequence of its parts
StepNames == {<<"checkout">>, <<"echo distinct ID ", DISTINCT_ID>>,
              <<"echo distinct ID ", OtherId>>}

\* new RegExp(DISTINCT_ID).test(step): the marker occurs in the step name
RegexTest(marker, step) == \E i \in 1..Len(step) : step[i] = marker

\* error messages: text, then the interpolated value
Msg(text, arg) == <<text, arg>>

NotFound == <<"Not Found">>
RemoteErrors == {NotFound, Msg("expected 200 but received ", "500")}

----------------------------------------------------------------------------
(* Initial state: nothing has run; any set of earlier runs of the workflow *)
(* may exist, none of them embeds the fresh marker.                        *)

BaseInit ==
  /\ pc = "start"
  /\ invocation = 1
  /\ markersUsed = <<>>
  /\ now = 0
  /\ cfg = NoConfig
  /\ phases = <<>>
  /\ lastCall = "none"
  /\ dispatchCount = 0
  /\ error = NoError
  /\ lastError = NoError
  /\ dispatchStatus = 0
  /\ dispatchedInputs = NoInputs
  /\ failedMsgs = <<>>
  /\ runIdOut = <<>>
  /\ timeOut = FALSE
  /\ exists \in SUBSET RunIds
  /\ markerIn = {}
  /\ runState = [status |-> "queued", conclusion |-> Null]
  /\ corrStartTime = 0
  /\ corrElapsedTime = 0
  /\ workflowRunIds = <<>>
  /\ idx = 0
  /\ probed = NoProbe
  /\ matchSeen = FALSE
  /\ fatalSeen = FALSE
  /\ corrOutcome = "idle"
  /\ workflowRunId = NoRun
  /\ rodStartTime = 0
  /\ rodElapsedTime = 0
  /\ rodTimeoutMs = 0
  /\ rodCalls = 0
  /\ rodEmpties = 0
  /\ waitStartTime = 0
  /\ waitElapsedTime = 0
  /\ waitRunId = NoRun
  /\ polls = 0
  /\ roundInTime = TRUE
  /\ failedJobsFetches = 0
  /\ waitOutcome = "idle"
  /\ urlStartTime = 0
  /\ urlElapsedTime = 0
  /\ roeStartTime = 0
  /\ roeElapsedTime = 0
  /\ roeWarnings = 0
  /\ roeCalls = 0
  /\ roeFailedAt = 0

\* no Gateway wrapper is followed on its own
\* no wrapper of the Gateway is called on its own
NoRequest == [branch |-> <<>>, per_page |-> 0, filter |-> ""]
NoRunData == [html_url |-> "", status |-> "", conclusion |-> ""]
NoInput ==
  [kind |-> "none", filename |-> <<>>, pages |-> <<>>, ref |-> <<>>,
   status |-> 200, runId |-> 1, runs |-> <<>>, jobs |-> <<>>,
   run |-> NoRunData]
NoCall ==
  [wrapper |-> "none", request |-> NoRequest, returned |-> FALSE,
   result |-> <<>>, error |-> NoError, logged |-> <<>>, warnings |-> <<>>,
   pagesFetched |-> 0]

\* no other run of the workflow is started while run() is under way
MainInit == BaseInit /\ crowd = 0

Init ==
  /\ MainInit
  /\ gwIn = NoInput
  /\ gwOut = NoCall

----------------------------------------------------------------------------
(* run(), src/main.ts *)

\* an error thrown inside run()'s try block reaches its catch clause
Raise(e) ==
  /\ error' = e
  /\ pc' = "catch"

\* const config = getConfig(): the parsed inputs, or a validation error
RunGetConfig ==
  /\ pc = "start"
  /\ UNCHANGED <<gwVars, invocation, crowd>>
  /\ phases' = Append(phases, "config")
  /\ lastCall' = "none"
  /\ lastError' = NoError
  /\ \/ /\ cfg' \in Configs
        /\ pc' = "init"
        /\ error' = error
     \/ /\ cfg' = cfg
        /\ Raise(Msg("\"pie\" value is ", "object"))
  /\ UNCHANGED <<now, dispatchCount, dispatchStatus,
                 dispatchedInputs, markersUsed>>
  /\ UNCHANGED <<outVars, worldVars, corrVars, rodVars, waitVars, urlVars,
                 roeVars>>

\* api.init(config)
RunInit ==
  /\ pc = "init"
  /\ UNCHANGED <<gwVars, invocation, crowd>>
  /\ phases' = Append(phases, "init")
  /\ lastCall' = "none"
  /\ lastError' = NoError
  /\ pc' = "workflowId"
  /\ UNCHANGED <<now, cfg, dispatchCount, dispatchStatus,
                 dispatchedInputs, markersUsed, error>>
  /\ UNCHANGED <<outVars, worldVars, corrVars, rodVars, waitVars, urlVars,
                 roeVars>>

\* getWorkflowId(config): a filename is resolved through the workflow
\* listing, a number is returned as it is
RunGetWorkflowId ==
  /\ pc = "workflowId"
  /\ UNCHANGED <<gwVars, invocation, crowd>>
  /\ phases' = Append(phases, "workflowId")
  /\ IF cfg.workflowIsString
       THEN /\ lastCall' = "listRepoWorkflows"
            /\ \/ pc' = "dispatch" /\ error' = error
               \/ Raise(Msg("Failed to get workflows, expected 200 but received ", "500"))
               \/ Raise(Msg("Unable to find ID for Workflow: ", "workflow.yml"))
            /\ lastError' = error'
       ELSE /\ lastCall' = "none"
            /\ lastError' = NoError
            /\ pc' = "dispatch"
            /\ error' = error
  /\ UNCHANGED <<now, cfg, dispatchCount, dispatchStatus,
                 dispatchedInputs, markersUsed>>
  /\ UNCHANGED <<outVars, worldVars, corrVars, rodVars, waitVars, urlVars,
                 roeVars>>

\* the statuses createWorkflowDispatch answers with
ResponseStatuses == {200, 204, 422, 500}

Keys(object) == {entry[1] : entry \in object}

\* {...a, ...b}: an entry of b replaces the entry of a with the same key
Spread(a, b) == {entry \in a : entry[1] \notin Keys(b)} \cup b

\* faulty variant: the marker is spread under the configured inputs
DispatchInputsUnder(workflowInputs, distinctId) ==
  Spread({<<"distinct_id", distinctId>>}, workflowInputs)

\* inputs: {...config.workflowInputs, distinct_id: distinctId}
DispatchInputs(workflowInputs, distinctId) ==
  Spread(workflowInputs, {<<"distinct_id", distinctId>>})

\* faulty variant: every 2xx status is taken as a success
DispatchOkAny2xx(status) == status \in 200..299

\* if (response.status !== 204) throw
DispatchOk(status) == status = 204

DispatchError(status) ==
  Msg("Failed to dispatch action, expected 204 but received ", ToString(status))

\* faulty variant: a failed dispatch is sent again
RunDispatchRetried ==
  /\ pc = "dispatch"
  /\ UNCHANGED <<gwVars, invocation, crowd>>
  /\ dispatchCount < 3
  /\ phases' = Append(phases, "dispatch")
  /\ lastCall' = "createWorkflowDispatch"
  /\ dispatchCount' = dispatchCount + 1
  /\ dispatchedInputs' = DispatchInputs(cfg.workflowInputs, DISTINCT_ID)
  /\ markersUsed' = Append(markersUsed, DISTINCT_ID)
  /\ \E status \in ResponseStatuses :
       /\ dispatchStatus' = status
       /\ IF ~DispatchOk(status) THEN pc' = "dispatch" ELSE pc' = "corrBegin"
  /\ lastError' = NoError
  /\ UNCHANGED <<now, cfg, error>>
  /\ UNCHANGED <<outVars, worldVars, corrVars, rodVars, waitVars, urlVars,
                 roeVars>>

\* await api.dispatchWorkflow(DISTINCT_ID): one request, sent with the
\* configured inputs and the marker; any status but 204 is an error
RunDispatch ==
  /\ pc = "dispatch"
  /\ UNCHANGED <<gwVars, invocation, crowd>>
  /\ phases' = Append(phases, "dispatch")
  /\ lastCall' = "createWorkflowDispatch"
  /\ dispatchCount' = dispatchCount + 1
  /\ dispatchedInputs' = DispatchInputs(cfg.workflowInputs, DISTINCT_ID)
  /\ markersUsed' = Append(markersUsed, DISTINCT_ID)
  /\ \E status \in ResponseStatuses :
       /\ dispatchStatus' = status
       /\ IF ~DispatchOk(status)
            THEN Raise(DispatchError(status))
            ELSE pc' = "corrBegin" /\ error' = error
  /\ lastError' = error'
  /\ UNCHANGED <<now, cfg>>
  /\ UNCHANGED <<outVars, worldVars, corrVars, rodVars, waitVars, urlVars,
                 roeVars>>

----------------------------------------------------------------------------
(* The remote platform, as the calls observe it *)

Min(a, b) == IF a < b THEN a ELSE b
Max(S) == CHOOSE x \in S : \A y \in S : y <= x

\* runs are listed newest first; a newer run has a larger ID
RECURSIVE NewestFirst(_)
NewestFirst(S) ==
  IF S = {} THEN <<>> ELSE <<Max(S)>> \o NewestFirst(S \ {Max(S)})

\* the unrelated newer runs, newest first
CrowdIds == [i \in 1..crowd |-> MaxRunId + crowd + 1 - i]

PerPage == 5

\* faulty variant: the listing is asked for one run fewer
ListingShort(S) ==
  LET all == CrowdIds \o NewestFirst(S)
  IN SubSeq(all, 1, Min(PerPage - 1, Len(all)))

\* listWorkflowRuns with per_page: 5
Listing(S) ==
  LET all == CrowdIds \o NewestFirst(S)
  IN SubSeq(all, 1, Min(PerPage, Len(all)))

\* runs appear; a run's jobs gain steps: both only grow
MoreRuns(S) == {T \in SUBSET RunIds : S \subseteq T}

\* the runs of exists are older than the unrelated newer runs
Appearing(S) == IF crowd > 0 THEN {S} ELSE MoreRuns(S)
MoreMarked(M, S) == {N \in SUBSET S : M \subseteq N}

\* the de-duplicated step names listJobsForWorkflowRun can yield for a run
StepSets(marked) ==
  {S \in SUBSET StepNames :
     (\E s \in S : RegexTest(DISTINCT_ID, s)) <=> marked}

----------------------------------------------------------------------------
(* getWorkflowRunId, src/utils/workflow.ts *)

TimeoutMs == cfg.workflowTimeoutSeconds * 1000

\* while (elapsedTime < timeoutMs)
CorrLoopCond(elapsedTime, timeoutMs) == elapsedTime < timeoutMs

\* the budget handed to retryOrDie
FetchTimeout(timeoutMs) ==
  IF WORKFLOW_FETCH_TIMEOUT_MS > timeoutMs
    THEN timeoutMs
    ELSE WORKFLOW_FETCH_TIMEOUT_MS

\* faulty variant: every error of a probe is rethrown
SwallowedNever(e) == FALSE

\* faulty variant: every error of a probe is swallowed
SwallowedAlways(e) == TRUE

\* catch (error): rethrown unless its message is 'Not Found'
Swallowed(e) == e = NotFound

\* faulty variant: the step of any dispatch matches
ProbeMatchesAnyId(steps) == \E step \in steps : Len(step) > 1

\* for (const step of steps) if (idRegex.test(step))
ProbeMatches(steps) == \E step \in steps : RegexTest(DISTINCT_ID, step)

\* faulty variant: the output is not set
SetRunIdOutputDropped(out, id) == out

\* core.setOutput(ActionOutputs.runId, id)
SetRunIdOutput(out, id) == Append(out, id)

RodTimeoutError == <<"Timed out while attempting to fetch data">>

\* faulty variant: a list of one run is taken as empty
NonEmptyOverOne(response) == Len(response) > 1

\* retryOrDie: if (response.length > 0) return response
NonEmpty(response) == Len(response) > 0

\* the Correlator's frame is left (return or throw): its locals are gone;
\* no code reads the clock until the next phase takes its start time
CorrLocalsGone ==
  /\ corrStartTime' = 0
  /\ corrElapsedTime' = 0
  /\ idx' = 0
  /\ rodStartTime' = 0
  /\ rodElapsedTime' = 0
  /\ rodTimeoutMs' = 0
  /\ rodCalls' = 0
  /\ rodEmpties' = 0
  /\ now' = 0

\* the run listing, which only the Correlator reads, is no longer followed
CorrListingGone ==
  /\ workflowRunIds' = <<>>
  /\ probed' = NoProbe
  /\ exists' = {}
  /\ markerIn' = {}

\* an error leaves getWorkflowRunId
CorrRaise(e) ==
  /\ Raise(e)
  /\ corrOutcome' = "raised"
  /\ CorrLocalsGone
  /\ CorrListingGone

\* startTime, elapsedTime before the loop
CorrBegin ==
  /\ pc = "corrBegin"
  /\ UNCHANGED <<gwVars, invocation, crowd>>
  /\ phases' = Append(phases, "correlate")
  /\ lastCall' = "none"
  /\ lastError' = NoError
  /\ now' = 0
  /\ corrStartTime' = now'
  /\ corrElapsedTime' = now' - corrStartTime'
  /\ corrOutcome' = "searching"
  /\ pc' = "corrLoop"
  /\ UNCHANGED <<cfg, dispatchCount, dispatchStatus,
                 dispatchedInputs, markersUsed, error>>
  /\ UNCHANGED <<workflowRunIds, idx, probed, matchSeen, fatalSeen,
                 workflowRunId>>
  /\ UNCHANGED <<outVars, worldVars, rodVars, waitVars, urlVars, roeVars>>

\* a round starts: elapsedTime is read, retryOrDie is entered
CorrRound ==
  /\ pc = "corrLoop"
  /\ UNCHANGED <<gwVars, invocation, crowd>>
  /\ CorrLoopCond(corrElapsedTime, TimeoutMs)
  /\ corrElapsedTime' = now - corrStartTime
  /\ rodStartTime' = now
  /\ rodElapsedTime' = 0
  /\ rodTimeoutMs' = FetchTimeout(TimeoutMs)
  /\ rodCalls' = 0
  /\ rodEmpties' = 0
  /\ lastCall' = "none"
  /\ lastError' = NoError
  /\ pc' = "rodLoop"
  /\ UNCHANGED <<now, cfg, phases, dispatchCount, dispatchStatus,
                 dispatchedInputs, markersUsed, error>>
  /\ UNCHANGED <<corrStartTime, workflowRunIds, idx, probed, matchSeen,
                 fatalSeen, corrOutcome, workflowRunId>>
  /\ UNCHANGED <<outVars, worldVars, waitVars, urlVars, roeVars>>

\* the loop ends: the 'time' output is set and undefined is returned
CorrGiveUp ==
  /\ pc = "corrLoop"
  /\ UNCHANGED <<gwVars, invocation, crowd>>
  /\ ~CorrLoopCond(corrElapsedTime, TimeoutMs)
  /\ timeOut' = TRUE
  /\ corrOutcome' = "none"
  /\ workflowRunId' = NoRun
  /\ lastCall' = "none"
  /\ lastError' = NoError
  /\ pc' = "afterCorr"
  /\ CorrLocalsGone
  /\ CorrListingGone
  /\ UNCHANGED <<cfg, phases, dispatchCount, dispatchStatus,
                 dispatchedInputs, markersUsed, error>>
  /\ UNCHANGED <<failedMsgs, runIdOut>>
  /\ UNCHANGED <<matchSeen, fatalSeen>>
  /\ UNCHANGED <<runState, waitVars, urlVars, roeVars>>

\* retryOrDie: one attempt of getWorkflowRunIds; an empty list is followed
\* by the 1 s pause, an error of the call is not caught
RodAttempt ==
  /\ pc = "rodLoop"
  /\ UNCHANGED <<gwVars, invocation, crowd>>
  /\ rodElapsedTime < rodTimeoutMs
  /\ lastCall' = "listWorkflowRuns"
  /\ \E d \in Latencies :
       \/ \E runs \in Appearing(exists) :
            /\ exists' = runs
            /\ rodElapsedTime' = now - rodStartTime
            /\ rodCalls' = rodCalls + 1
            /\ rodEmpties' = rodEmpties + (IF runs = {} THEN 1 ELSE 0)
            /\ lastError' = NoError
            /\ IF NonEmpty(Listing(runs))
                 THEN /\ workflowRunIds' = Listing(runs)
                      /\ idx' = 1
                      /\ now' = now + d
                      /\ pc' = "probe"
                 ELSE /\ now' = now + d + RetryOrDiePauseMs
                      /\ pc' = "rodLoop"
                      /\ UNCHANGED <<workflowRunIds, idx>>
            /\ UNCHANGED <<error, fatalSeen, corrOutcome, markerIn, probed>>
            /\ UNCHANGED <<corrStartTime, corrElapsedTime, rodStartTime,
                           rodTimeoutMs>>
       \/ \E e \in RemoteErrors :
            /\ CorrRaise(e)
            /\ lastError' = e
            /\ fatalSeen' = TRUE
  /\ UNCHANGED <<cfg, phases, dispatchCount, dispatchStatus,
                 dispatchedInputs, markersUsed>>
  /\ UNCHANGED <<matchSeen, workflowRunId>>
  /\ UNCHANGED <<outVars, runState, waitVars, urlVars, roeVars>>

\* faulty variant: the loop's end returns the empty list
RodTimedOutReturnsEmpty ==
  /\ pc = "rodLoop"
  /\ UNCHANGED <<gwVars, invocation, crowd>>
  /\ ~(rodElapsedTime < rodTimeoutMs)
  /\ workflowRunIds' = <<>>
  /\ idx' = 1
  /\ pc' = "probe"
  /\ lastCall' = "none"
  /\ lastError' = NoError
  /\ UNCHANGED <<now, cfg, phases, dispatchCount, dispatchStatus,
                 dispatchedInputs, markersUsed, error>>
  /\ UNCHANGED <<corrStartTime, corrElapsedTime, probed, matchSeen, fatalSeen,
                 corrOutcome, workflowRunId>>
  /\ UNCHANGED <<outVars, worldVars, rodVars, waitVars, urlVars, roeVars>>

\* retryOrDie: the loop ends without a non-empty list
RodTimedOut ==
  /\ pc = "rodLoop"
  /\ UNCHANGED <<gwVars, invocation, crowd>>
  /\ ~(rodElapsedTime < rodTimeoutMs)
  /\ CorrRaise(RodTimeoutError)
  /\ lastCall' = "none"
  /\ lastError' = NoError
  /\ UNCHANGED <<cfg, phases, dispatchCount, dispatchStatus,
                 dispatchedInputs, markersUsed>>
  /\ UNCHANGED <<matchSeen, fatalSeen, workflowRunId>>
  /\ UNCHANGED <<outVars, runState, waitVars, urlVars, roeVars>>

\* for (const id of workflowRunIds): getWorkflowRunJobSteps(id) and the test
\* of its step names against the marker
CorrProbe ==
  /\ pc = "probe"
  /\ UNCHANGED <<gwVars, invocation, crowd>>
  /\ idx <= Len(workflowRunIds)
  /\ lastCall' = "listJobsForWorkflowRun"
  /\ \E d \in Latencies :
       \/ \E marked \in MoreMarked(markerIn, exists) :
          \E steps \in StepSets(workflowRunIds[idx] \in marked) :
            /\ now' = now + d
            /\ markerIn' = marked
            /\ lastError' = NoError
            /\ IF ProbeMatches(steps)
                 THEN /\ probed' = [id |-> workflowRunIds[idx], steps |-> steps]
                      /\ matchSeen' = TRUE
                      /\ pc' = "url"
                      /\ idx' = idx
                 ELSE /\ probed' = NoProbe
                      /\ matchSeen' = matchSeen
                      /\ pc' = "probe"
                      /\ idx' = idx + 1
            /\ UNCHANGED <<error, fatalSeen, corrOutcome, exists,
                           workflowRunIds>>
            /\ UNCHANGED <<corrStartTime, corrElapsedTime, rodVars>>
       \/ \E e \in RemoteErrors :
            /\ fatalSeen' = (fatalSeen \/ e # NotFound)
            /\ lastError' = e
            /\ matchSeen' = matchSeen
            /\ IF Swallowed(e)
                 THEN /\ now' = now + d
                      /\ pc' = "probe"
                      /\ idx' = idx + 1
                      /\ probed' = NoProbe
                      /\ UNCHANGED <<error, corrOutcome, exists, markerIn,
                                     workflowRunIds>>
                      /\ UNCHANGED <<corrStartTime, corrElapsedTime, rodVars>>
                 ELSE CorrRaise(e)
  /\ UNCHANGED <<cfg, phases, dispatchCount, dispatchStatus,
                 dispatchedInputs, markersUsed>>
  /\ UNCHANGED workflowRunId
  /\ UNCHANGED <<outVars, runState, waitVars, urlVars, roeVars>>

\* a step matched: getWorkflowRunUrl(id), inside the same try block, then
\* core.setOutput(run_id, id) and return id
CorrUrl ==
  /\ pc = "url"
  /\ UNCHANGED <<gwVars, invocation, crowd>>
  /\ lastCall' = "getWorkflowRun"
  /\ \E d \in Latencies :
       \/ /\ runIdOut' = SetRunIdOutput(runIdOut, workflowRunIds[idx])
          /\ workflowRunId' = workflowRunIds[idx]
          /\ corrOutcome' = "found"
          /\ lastError' = NoError
          /\ pc' = "afterCorr"
          /\ CorrLocalsGone
          /\ UNCHANGED <<error, fatalSeen, workflowRunIds, probed, exists,
                         markerIn>>
       \/ \E e \in RemoteErrors :
            /\ fatalSeen' = (fatalSeen \/ e # NotFound)
            /\ lastError' = e
            /\ UNCHANGED <<runIdOut, workflowRunId>>
            /\ IF Swallowed(e)
                 THEN /\ now' = now + d
                      /\ pc' = "probe"
                      /\ idx' = idx + 1
                      /\ probed' = NoProbe
                      /\ UNCHANGED <<error, corrOutcome, exists, markerIn,
                                     workflowRunIds>>
                      /\ UNCHANGED <<corrStartTime, corrElapsedTime, rodVars>>
                 ELSE CorrRaise(e)
  /\ UNCHANGED <<cfg, phases, dispatchCount, dispatchStatus,
                 dispatchedInputs, markersUsed>>
  /\ UNCHANGED <<failedMsgs, timeOut>>
  /\ UNCHANGED matchSeen
  /\ UNCHANGED <<runState, waitVars, urlVars, roeVars>>

\* faulty variant: no pause between two rounds
CorrRoundEndNoPause ==
  /\ pc = "probe"
  /\ idx > Len(workflowRunIds)
  /\ UNCHANGED <<gwVars, invocation, crowd>>
  /\ lastCall' = "none"
  /\ lastError' = NoError
  /\ pc' = "corrLoop"
  /\ UNCHANGED <<now, cfg, phases, dispatchCount, dispatchStatus,
                 dispatchedInputs, markersUsed, error>>
  /\ UNCHANGED <<outVars, worldVars, corrVars, rodVars, waitVars, urlVars,
                 roeVars>>

\* every listed run was probed: pause before the next round
CorrRoundEnd ==
  /\ pc = "probe"
  /\ UNCHANGED <<gwVars, invocation, crowd>>
  /\ idx > Len(workflowRunIds)
  /\ now' = now + WORKFLOW_JOB_STEPS_RETRY_MS
  /\ lastCall' = "none"
  /\ lastError' = NoError
  /\ pc' = "corrLoop"
  /\ UNCHANGED <<cfg, phases, dispatchCount, dispatchStatus,
                 dispatchedInputs, markersUsed, error>>
  /\ UNCHANGED <<outVars, worldVars, corrVars, rodVars, waitVars, urlVars,
                 roeVars>>

----------------------------------------------------------------------------
(* waitWorkflowRunFinish, src/utils/workflow.ts *)

\* if (workflowRunId) in run()
IsTruthy(id) == id # NoRun /\ id # 0

\* faulty variant: the comparison is turned round
WaitLoopCondReversed(elapsedTime, timeoutMs) == elapsedTime > timeoutMs

\* while (elapsedTime < timeoutMs)
WaitLoopCond(elapsedTime, timeoutMs) == elapsedTime < timeoutMs

\* faulty variant: the success case is missing
ConclusionClassNoSuccess(conclusion) ==
  IF conclusion \in FailureConclusions THEN "failure" ELSE "unknown"

\* faulty variant: the default case is handled as a failure conclusion
ConclusionClassDefaultFails(conclusion) ==
  IF conclusion = Success THEN "success" ELSE "failure"

\* switch (conclusion)
ConclusionClass(conclusion) ==
  IF conclusion = Success THEN "success"
  ELSE IF conclusion \in FailureConclusions THEN "failure"
  ELSE "unknown"

\* faulty variant: the budget must be exceeded, not met
RetryExhaustedStrict(elapsed, timeout) == elapsed > timeout

\* faulty variant: a failure is never thrown up from the catch clause
RetryExhaustedNever(elapsed, timeout) == FALSE

\* faulty variant: every failure is thrown up at once
RetryExhaustedAlways(elapsed, timeout) == TRUE

\* faulty variant: the pause between two polls ignores the configuration
PollPauseFixed(config) == RetryOnErrorPauseMs

\* setTimeout(resolve, config.pollIntervalMs)
PollPause(config) == config.pollIntervalMs

\* retryOnError: the error is thrown up once the budget is used
RetryExhausted(elapsed, timeout) == elapsed >= timeout

WaitTimeoutError(runId) ==
  Msg("Timeout exceeded while awaiting completion of Run ", ToString(runId))
RetryTimeoutError(name) ==
  Msg("Timeout exceeded while attempting to retry ", name)
UnknownConclusion(conclusion) == Msg("Unknown conclusion: ", conclusion)
NoRunIdMessage == <<"Did not receive workflowRunId">>

\* the run only moves forward; a null status is one not yet reported
Rank(status) ==
  IF status = Completed THEN 2 ELSE IF status = "in_progress" THEN 1 ELSE 0
RunStates ==
  [status : Statuses \ {Completed}, conclusion : {Null}]
    \cup [status : {Completed}, conclusion : Conclusions]
LaterStates(s) ==
  IF s.status = Completed THEN {s}
  ELSE {t \in RunStates : Rank(t.status) >= Rank(s.status)}

\* the Waiter's frame is left (return or throw): its locals are gone
WaitLocalsGone ==
  /\ waitStartTime' = 0
  /\ waitElapsedTime' = 0
  /\ urlStartTime' = 0
  /\ urlElapsedTime' = 0
  /\ roeStartTime' = 0
  /\ roeElapsedTime' = 0
  /\ roeWarnings' = 0
  /\ roeCalls' = 0
  /\ now' = 0

\* an error leaves waitWorkflowRunFinish
WaitRaise(e, outcome) ==
  /\ Raise(e)
  /\ waitOutcome' = outcome
  /\ WaitLocalsGone

\* run(): the Waiter is entered with the Correlator's result, or the
\* invocation is failed
RunBranch ==
  /\ pc = "afterCorr"
  /\ UNCHANGED <<gwVars, invocation, crowd>>
  /\ lastCall' = "none"
  /\ lastError' = NoError
  /\ CorrListingGone
  /\ IF IsTruthy(workflowRunId)
       THEN /\ phases' = Append(phases, "wait")
            /\ waitRunId' = workflowRunId
            /\ now' = 0
            /\ waitStartTime' = now'
            /\ waitElapsedTime' = now' - waitStartTime'
            /\ waitOutcome' = "polling"
            /\ urlStartTime' = now'
            /\ urlElapsedTime' = now' - urlStartTime'
            /\ pc' = "urlLoop"
            /\ UNCHANGED failedMsgs
       ELSE /\ failedMsgs' = Append(failedMsgs, NoRunIdMessage)
            /\ pc' = "done"
            /\ UNCHANGED <<now, phases, waitRunId, waitStartTime,
                           waitElapsedTime, waitOutcome, urlStartTime,
                           urlElapsedTime>>
  /\ UNCHANGED <<cfg, dispatchCount, dispatchStatus,
                 dispatchedInputs, markersUsed, error>>
  /\ UNCHANGED <<runIdOut, timeOut>>
  /\ UNCHANGED <<corrStartTime, corrElapsedTime, idx, matchSeen, fatalSeen,
                 corrOutcome, workflowRunId>>
  /\ UNCHANGED <<polls, roundInTime, failedJobsFetches>>
  /\ UNCHANGED <<runState, rodVars, roeVars>>

\* getWorkflowRunActiveJobUrlRetry: one fetch of the active job's URL; no
\* active job is followed by the 200 ms pause, an error is not caught
UrlAttempt ==
  /\ pc = "urlLoop"
  /\ UNCHANGED <<gwVars, invocation, crowd>>
  /\ urlElapsedTime < ActiveJobUrlTimeoutMs
  /\ lastCall' = "listJobsForWorkflowRun"
  /\ \E d \in Latencies :
       \/ /\ urlElapsedTime' = now - urlStartTime
          /\ \/ now' = now + d /\ pc' = "waitLoop"
             \/ now' = now + d + ActiveJobUrlPauseMs /\ pc' = "urlLoop"
          /\ lastError' = NoError
          /\ UNCHANGED <<error, waitOutcome, waitStartTime, waitElapsedTime,
                         urlStartTime, roeVars>>
       \/ \E e \in RemoteErrors :
            /\ WaitRaise(e, "raised")
            /\ lastError' = e
            /\ UNCHANGED roeFailedAt
  /\ UNCHANGED <<cfg, phases, dispatchCount, dispatchStatus,
                 dispatchedInputs, markersUsed>>
  /\ UNCHANGED <<waitRunId, polls, roundInTime, failedJobsFetches>>
  /\ UNCHANGED <<outVars, worldVars, corrVars, rodVars>>

\* faulty variant: the loop's end throws
UrlTimedOutRaises ==
  /\ pc = "urlLoop"
  /\ UNCHANGED <<gwVars, invocation, crowd>>
  /\ ~(urlElapsedTime < ActiveJobUrlTimeoutMs)
  /\ WaitRaise(<<"Unable to fetch URL">>, "raised")
  /\ lastCall' = "none"
  /\ lastError' = NoError
  /\ UNCHANGED <<cfg, phases, dispatchCount, dispatchStatus, dispatchedInputs,
                 markersUsed>>
  /\ UNCHANGED <<waitRunId, polls, roundInTime, failedJobsFetches, roeFailedAt>>
  /\ UNCHANGED <<outVars, worldVars, corrVars, rodVars>>

\* getWorkflowRunActiveJobUrlRetry: 'Unable to fetch URL'
UrlTimedOut ==
  /\ pc = "urlLoop"
  /\ UNCHANGED <<gwVars, invocation, crowd>>
  /\ ~(urlElapsedTime < ActiveJobUrlTimeoutMs)
  /\ lastCall' = "none"
  /\ lastError' = NoError
  /\ pc' = "waitLoop"
  /\ UNCHANGED <<now, cfg, phases, dispatchCount, dispatchStatus,
                 dispatchedInputs, markersUsed, error>>
  /\ UNCHANGED <<outVars, worldVars, corrVars, rodVars, waitVars, urlVars,
                 roeVars>>

\* a round of the Waiter starts: elapsedTime is read, retryOnError is entered
WaitRound ==
  /\ pc = "waitLoop"
  /\ UNCHANGED <<gwVars, invocation, crowd>>
  /\ WaitLoopCond(waitElapsedTime, TimeoutMs)
  /\ waitElapsedTime' = now - waitStartTime
  /\ roeStartTime' = now
  /\ roeElapsedTime' = now - roeStartTime'
  /\ roeWarnings' = 0
  /\ roeCalls' = 0
  /\ roeFailedAt' = 0
  /\ roundInTime' = (waitElapsedTime' < TimeoutMs)
  /\ lastCall' = "none"
  /\ lastError' = NoError
  /\ pc' = "roeLoop"
  /\ UNCHANGED <<now, cfg, phases, dispatchCount, dispatchStatus,
                 dispatchedInputs, markersUsed, error>>
  /\ UNCHANGED <<waitStartTime, waitRunId, polls, failedJobsFetches,
                 waitOutcome>>
  /\ UNCHANGED <<outVars, worldVars, corrVars, rodVars, urlVars>>

\* faulty variant: the Waiter's loop ends with false and no error
WaitTimedOutSwallowed ==
  /\ pc = "waitLoop"
  /\ UNCHANGED <<gwVars, invocation, crowd>>
  /\ ~WaitLoopCond(waitElapsedTime, TimeoutMs)
  /\ waitOutcome' = "timeout"
  /\ pc' = "done"
  /\ WaitLocalsGone
  /\ lastCall' = "none"
  /\ lastError' = NoError
  /\ UNCHANGED <<cfg, phases, dispatchCount, dispatchStatus, dispatchedInputs, markersUsed,
                 error>>
  /\ UNCHANGED <<waitRunId, polls, roundInTime, failedJobsFetches, roeFailedAt>>
  /\ UNCHANGED <<outVars, worldVars, corrVars, rodVars>>

\* the Waiter's loop ends: throw new Error(`Timeout exceeded ... Run ${runId}`)
WaitTimedOut ==
  /\ pc = "waitLoop"
  /\ UNCHANGED <<gwVars, invocation, crowd>>
  /\ ~WaitLoopCond(waitElapsedTime, TimeoutMs)
  /\ WaitRaise(WaitTimeoutError(waitRunId), "timeout")
  /\ UNCHANGED roeFailedAt
  /\ lastCall' = "none"
  /\ lastError' = NoError
  /\ UNCHANGED <<cfg, phases, dispatchCount, dispatchStatus,
                 dispatchedInputs, markersUsed>>
  /\ UNCHANGED <<waitRunId, polls, roundInTime, failedJobsFetches>>
  /\ UNCHANGED <<outVars, worldVars, corrVars, rodVars>>

\* retryOnError(() => getWorkflowRunState(runId), .., 400) and the handling
\* of the state it returns: a failed fetch is thrown up once the budget is
\* used and otherwise retried after the warning and the 1 s pause; a state
\* not yet completed is followed by the poll interval
WaitPoll ==
  /\ pc = "roeLoop"
  /\ UNCHANGED <<gwVars, invocation, crowd>>
  /\ IF roeElapsedTime < RunStateRetryTimeoutMs
       THEN
         /\ lastCall' = "getWorkflowRun"
         /\ \E d \in Latencies :
              \/ \E s \in LaterStates(runState) :
                   /\ runState' = s
                   /\ lastError' = NoError
                   /\ UNCHANGED <<error, roeFailedAt>>
                   /\ IF s.status = Completed
                        THEN
                          /\ polls' = polls
                          /\ WaitLocalsGone
                          /\ CASE ConclusionClass(s.conclusion) = "success" ->
                                    /\ waitOutcome' = "succeeded"
                                    /\ pc' = "done"
                                    /\ UNCHANGED failedMsgs
                               [] ConclusionClass(s.conclusion) = "failure" ->
                                    /\ waitOutcome' = waitOutcome
                                    /\ pc' = "logFailure"
                                    /\ UNCHANGED failedMsgs
                               [] OTHER ->
                                    /\ failedMsgs' =
                                         Append(failedMsgs,
                                                UnknownConclusion(s.conclusion))
                                    /\ waitOutcome' = "unknown"
                                    /\ pc' = "done"
                        ELSE
                          /\ now' = now + d + PollPause(cfg)
                          /\ roeElapsedTime' = now - roeStartTime
                          /\ polls' = polls + 1
                          /\ roeCalls' = roeCalls + 1
                          /\ pc' = "waitLoop"
                          /\ UNCHANGED <<failedMsgs, waitOutcome, roeWarnings,
                                         roeStartTime, waitStartTime,
                                         waitElapsedTime, urlVars>>
              \/ \E e \in RemoteErrors :
                   /\ UNCHANGED <<runState, polls, failedMsgs>>
                   /\ lastError' = e
                   /\ roeFailedAt' = now + d - roeStartTime
                   /\ IF RetryExhausted(now + d - roeStartTime,
                                        RunStateRetryTimeoutMs)
                        THEN WaitRaise(e, "raised")
                        ELSE /\ now' = now + d + RetryOnErrorPauseMs
                             /\ roeElapsedTime' = now - roeStartTime
                             /\ roeWarnings' = roeWarnings + 1
                             /\ roeCalls' = roeCalls + 1
                             /\ pc' = "roeLoop"
                             /\ UNCHANGED <<error, waitOutcome, roeStartTime,
                                            waitStartTime, waitElapsedTime,
                                            urlVars>>
       ELSE
         /\ WaitRaise(RetryTimeoutError("getWorkflowRunState"), "raised")
         /\ UNCHANGED roeFailedAt
         /\ lastCall' = "none"
         /\ lastError' = NoError
         /\ UNCHANGED <<runState, polls, failedMsgs>>
  /\ UNCHANGED <<cfg, phases, dispatchCount, dispatchStatus,
                 dispatchedInputs, markersUsed>>
  /\ UNCHANGED <<runIdOut, timeOut>>
  /\ UNCHANGED <<exists, markerIn>>
  /\ UNCHANGED <<waitRunId, roundInTime, failedJobsFetches>>
  /\ UNCHANGED <<corrVars, rodVars>>

\* faulty variant: the conclusion is reported before the failed jobs are
\* fetched
WaitLogFailureReportsTwice ==
  /\ pc = "logFailure"
  /\ UNCHANGED <<gwVars, invocation, crowd>>
  /\ lastCall' = "listJobsForWorkflowRun"
  /\ failedJobsFetches' = failedJobsFetches + 1
  /\ failedMsgs' = Append(failedMsgs, <<runState.conclusion>>)
  /\ \/ /\ waitOutcome' = "failed"
        /\ pc' = "done"
        /\ lastError' = NoError
        /\ UNCHANGED error
     \/ /\ \E e \in RemoteErrors : Raise(e) /\ lastError' = e
        /\ waitOutcome' = "raised"
  /\ UNCHANGED <<now, cfg, phases, dispatchCount, dispatchStatus,
                 dispatchedInputs, markersUsed>>
  /\ UNCHANGED <<runIdOut, timeOut>>
  /\ UNCHANGED <<waitStartTime, waitElapsedTime, waitRunId, polls, roundInTime>>
  /\ UNCHANGED <<worldVars, corrVars, rodVars, urlVars, roeVars>>

\* a failure conclusion: logFailureDetails(runId) fetches the failed jobs,
\* then core.setFailed(conclusion) and return false
WaitLogFailure ==
  /\ pc = "logFailure"
  /\ UNCHANGED <<gwVars, invocation, crowd>>
  /\ lastCall' = "listJobsForWorkflowRun"
  /\ failedJobsFetches' = failedJobsFetches + 1
  /\ \/ /\ failedMsgs' = Append(failedMsgs, <<runState.conclusion>>)
        /\ waitOutcome' = "failed"
        /\ pc' = "done"
        /\ lastError' = NoError
        /\ UNCHANGED error
     \/ /\ \E e \in RemoteErrors : Raise(e) /\ lastError' = e
        /\ waitOutcome' = "raised"
        /\ UNCHANGED failedMsgs
  /\ UNCHANGED <<now, cfg, phases, dispatchCount, dispatchStatus,
                 dispatchedInputs, markersUsed>>
  /\ UNCHANGED <<runIdOut, timeOut>>
  /\ UNCHANGED <<waitStartTime, waitElapsedTime, waitRunId, polls, roundInTime>>
  /\ UNCHANGED <<worldVars, corrVars, rodVars, urlVars, roeVars>>

\* faulty variant: the error is caught and dropped
RunCatchSilent ==
  /\ pc = "catch"
  /\ UNCHANGED <<gwVars, invocation, crowd>>
  /\ lastCall' = "none"
  /\ lastError' = NoError
  /\ pc' = "done"
  /\ UNCHANGED <<now, cfg, phases, dispatchCount, dispatchStatus,
                 dispatchedInputs, markersUsed, error>>
  /\ UNCHANGED <<outVars, worldVars, corrVars, rodVars, waitVars, urlVars,
                 roeVars>>

\* catch (error) in run(): core.setFailed(error.message)
RunCatch ==
  /\ pc = "catch"
  /\ UNCHANGED <<gwVars, invocation, crowd>>
  /\ failedMsgs' = Append(failedMsgs, error)
  /\ lastCall' = "none"
  /\ lastError' = NoError
  /\ pc' = "done"
  /\ UNCHANGED <<now, cfg, phases, dispatchCount, dispatchStatus,
                 dispatchedInputs, markersUsed, error>>
  /\ UNCHANGED <<runIdOut, timeOut>>
  /\ UNCHANGED <<worldVars, corrVars, rodVars, waitVars, urlVars, roeVars>>

----------------------------------------------------------------------------

Next ==
  \/ RunGetConfig
  \/ RunInit
  \/ RunGetWorkflowId
  \/ RunDispatch
  \/ CorrBegin
  \/ CorrRound
  \/ CorrGiveUp
  \/ RodAttempt
  \/ RodTimedOut
  \/ CorrProbe
  \/ CorrUrl
  \/ CorrRoundEnd
  \/ RunBranch
  \/ UrlAttempt
  \/ UrlTimedOut
  \/ WaitRound
  \/ WaitTimedOut
  \/ WaitPoll
  \/ WaitLogFailure
  \/ RunCatch

Spec == Init /\ [][Next]_vars

\* every awaited promise settles: a remote call answers or fails, a timer
\* fires, and the continuation then runs
FairSpec == Spec /\ WF_vars(Next)

\* run() is exported and DISTINCT_ID is computed when the module is loaded:
\* a caller that awaited run() calls it again in the same module instance.
\* The runs of the earlier dispatch may be listed, with the marker in their
\* steps.
RunAgain ==
  /\ pc = "done"
  /\ invocation < MaxInvocations
  /\ invocation' = invocation + 1
  /\ pc' = "start"
  /\ now' = 0
  /\ cfg' = NoConfig
  /\ phases' = <<>>
  /\ lastCall' = "none"
  /\ dispatchCount' = 0
  /\ error' = NoError
  /\ lastError' = NoError
  /\ dispatchStatus' = 0
  /\ dispatchedInputs' = NoInputs
  /\ failedMsgs' = <<>>
  /\ runIdOut' = <<>>
  /\ timeOut' = FALSE
  /\ exists' \in SUBSET RunIds
  /\ markerIn' \in SUBSET exists'
  /\ runState' = [status |-> "queued", conclusion |-> Null]
  /\ matchSeen' = FALSE
  /\ fatalSeen' = FALSE
  /\ corrOutcome' = "idle"
  /\ workflowRunId' = NoRun
  /\ waitRunId' = NoRun
  /\ polls' = 0
  /\ roundInTime' = TRUE
  /\ failedJobsFetches' = 0
  /\ waitOutcome' = "idle"
  /\ roeFailedAt' = 0
  /\ UNCHANGED <<corrStartTime, corrElapsedTime, workflowRunIds, idx, probed>>
  /\ UNCHANGED <<waitStartTime, waitElapsedTime>>
  /\ UNCHANGED <<rodVars, urlVars, roeStartTime, roeElapsedTime, roeWarnings,
                 roeCalls>>
  /\ UNCHANGED <<markersUsed, gwVars, crowd>>

ReuseNext ==
  \/ Next
  \/ RunAgain

ReuseSpec == Init /\ [][ReuseNext]_vars

\* other runs of the workflow were started after the runs of exists: none,
\* one fewer than a page of the run listing holds, or a whole page
CrowdInit ==
  /\ BaseInit
  /\ crowd \in {0, PerPage - 1, PerPage}
  /\ gwIn = NoInput
  /\ gwOut = NoCall

CrowdSpec == CrowdInit /\ [][Next]_vars /\ WF_vars(Next)

----------------------------------------------------------------------------
(* The Gateway's read wrappers, each called once on one remote response *)

\* response.status as the wrappers read it
ReadStatuses == {200, 204, 304, 500}

SeqsUpTo(S, n) == UNION {[1..k -> S] : k \in 0..n}

\* strings that are searched or rewritten are sequences of characters
WfAxy == [id |-> 0, path |-> <<"/", "a", "x", "y">>]
WfADotY == [id |-> 1, path |-> <<"/", "a", ".", "y">>]
WfOtherADotY == [id |-> 2, path |-> <<"w", "/", "a", ".", "y">>]
SampleWorkflows == {WfAxy, WfADotY, WfOtherADotY}
Filenames == {<<"a", ".", "y">>, <<"b">>}

WorkflowPages ==
  {[status |-> 200, workflows |-> w] :
     w \in SeqsUpTo(SampleWorkflows, MaxListed)}
  \cup {[status |-> st, workflows |-> <<>>] : st \in ReadStatuses \ {200}}

\* a git reference is the sequence of its '/'-separated parts
Refs ==
  {<<"refs", "heads", "master">>, <<"master">>, <<"refs", "tags", "v1">>,
   <<"", "refs", "heads", "master">>}

Step(name, number) ==
  [name |-> name, status |-> "completed", conclusion |-> "success",
   number |-> number, started_at |-> "t0"]

JobBuild ==
  [id |-> 1, name |-> "build", status |-> "completed",
   conclusion |-> "failure", stepsDefined |-> TRUE,
   steps |-> <<Step("checkout", 1), Step(DISTINCT_ID, 2)>>,
   html_url |-> "u1"]
JobTest ==
  [id |-> 2, name |-> "test", status |-> "in_progress", conclusion |-> Null,
   stepsDefined |-> TRUE, steps |-> <<Step("checkout", 1)>>,
   html_url |-> Null]
JobLint ==
  [id |-> 3, name |-> "lint", status |-> "queued", conclusion |-> Null,
   stepsDefined |-> FALSE, steps |-> <<>>, html_url |-> "u3"]
JobDeploy ==
  [id |-> 4, name |-> "deploy", status |-> "completed",
   conclusion |-> "failure", stepsDefined |-> FALSE, steps |-> <<>>,
   html_url |-> "u4"]
JobDocs ==
  [id |-> 5, name |-> "docs", status |-> "completed",
   conclusion |-> "cancelled", stepsDefined |-> TRUE,
   steps |-> <<Step(DISTINCT_ID, 1), Step("checkout", 2)>>,
   html_url |-> "u5"]
SampleJobs == {JobBuild, JobTest, JobLint, JobDeploy, JobDocs}

RunDatas ==
  {[html_url |-> "r1", status |-> Completed, conclusion |-> "success"],
   [html_url |-> "r1", status |-> "in_progress", conclusion |-> Null]}

GwInputs ==
  {[NoInput EXCEPT !.kind = "getWorkflowId", !.filename = f, !.pages = ps] :
     f \in Filenames,
     ps \in UNION {[1..k -> WorkflowPages] : k \in 1..MaxPages}}
  \cup {[NoInput EXCEPT !.kind = "getWorkflowRunIds", !.ref = r,
                        !.status = st, !.runs = ids] :
     r \in Refs, st \in ReadStatuses, ids \in SeqsUpTo(RunIds, MaxListed)}
  \cup {[NoInput EXCEPT !.kind = k, !.status = st, !.run = d] :
     k \in {"getWorkflowRunUrl", "getWorkflowRunState"},
     st \in ReadStatuses, d \in RunDatas}
  \cup {[NoInput EXCEPT !.kind = k, !.status = st, !.jobs = js] :
     k \in {"getWorkflowRunJobSteps", "getWorkflowRunFailedJobs",
            "getWorkflowRunActiveJobUrl"},
     st \in ReadStatuses, js \in SeqsUpTo(SampleJobs, MaxListed)}

\* faulty variant: only the error statuses are refused
StatusOkBelow400(status) == status < 400

\* if (response.status !== 200) throw
StatusOk(status) == status = 200

Expected200(what, status) ==
  <<what, ", expected 200 but received ", ToString(status)>>

\* return <value>
Returned(wrapper, request, value) ==
  [NoCall EXCEPT !.wrapper = wrapper, !.request = request,
                 !.returned = TRUE, !.result = value]

\* catch (error) { core.error(...); throw error }
Thrown(wrapper, logName, request, err) ==
  [NoCall EXCEPT !.wrapper = wrapper, !.request = request, !.error = err,
                 !.logged =
                   <<<<logName, ": An unexpected error has occurred: ", err>>>>]

RegexMetaChars ==
  {".", "*", "+", "?", "^", "$", "{", "}", "(", ")", "|", "[", "]", "\\"}

\* faulty variant: the filename is used as the pattern as it is
SanitiseNothing(filename) == filename

\* workflowFilename.replace(/[.*+?^${}()|[\]\\]/g, '\\$&')
RECURSIVE Sanitise(_)
Sanitise(filename) ==
  IF filename = <<>> THEN <<>>
  ELSE LET c == Head(filename)
       IN (IF c \in RegexMetaChars THEN <<"\\", c>> ELSE <<c>>)
            \o Sanitise(Tail(filename))

\* the pattern as the regular expression reads it: '\' makes the next
\* character a literal, '.' stands for any character, every other character
\* of the modelled filenames stands for itself
RECURSIVE PatternTokens(_)
PatternTokens(pattern) ==
  IF pattern = <<>> THEN <<>>
  ELSE IF Head(pattern) = "\\" /\ Len(pattern) >= 2
    THEN <<[any |-> FALSE, char |-> pattern[2]]>>
           \o PatternTokens(SubSeq(pattern, 3, Len(pattern)))
  ELSE IF Head(pattern) = "."
    THEN <<[any |-> TRUE, char |-> "."]>> \o PatternTokens(Tail(pattern))
  ELSE <<[any |-> FALSE, char |-> Head(pattern)]>>
         \o PatternTokens(Tail(pattern))

\* new RegExp(pattern).test(path): a match may start anywhere
PathMatches(pattern, path) ==
  LET tokens == PatternTokens(pattern)
  IN \E start \in 0..(Len(path) - Len(tokens)) :
       \A k \in 1..Len(tokens) :
         tokens[k].any \/ tokens[k].char = path[start + k]

\* workflows.find(...)?.id
FirstMatch(pattern, workflows) ==
  LET hits == {j \in DOMAIN workflows : PathMatches(pattern, workflows[j].path)}
  IN IF hits = {} THEN 0
     ELSE CHOOSE j \in hits : \A h \in hits : j <= h

UnableToFindId(filename) == <<"Unable to find ID for Workflow: ", filename>>

\* the for-await loop over the pages, from page i on
RECURSIVE WorkflowIdFrom(_, _, _)
WorkflowIdFrom(filename, pages, i) ==
  IF i > Len(pages)
    THEN [Thrown("getWorkflowId", "getWorkflowId", NoRequest,
                 UnableToFindId(filename))
            EXCEPT !.pagesFetched = Len(pages)]
  ELSE IF ~StatusOk(pages[i].status)
    THEN [Thrown("getWorkflowId", "getWorkflowId", NoRequest,
                 Expected200("Failed to get workflows", pages[i].status))
            EXCEPT !.pagesFetched = i]
  ELSE LET j == FirstMatch(Sanitise(filename), pages[i].workflows)
       IN IF j # 0
            THEN [Returned("getWorkflowId", NoRequest,
                           pages[i].workflows[j].id)
                    EXCEPT !.pagesFetched = i]
            ELSE WorkflowIdFrom(filename, pages, i + 1)

GetWorkflowId(filename, pages) == WorkflowIdFrom(filename, pages, 1)

\* getBranchName: the part after refs/heads/ when the reference has one,
\* the reference itself otherwise
GetBranchName(ref) ==
  LET at == {i \in 1..(Len(ref) - 2) :
               ref[i] = "refs" /\ ref[i + 1] = "heads"}
  IN IF at = {} THEN ref
     ELSE LET i == CHOOSE a \in at : \A b \in at : a <= b
          IN SubSeq(ref, i + 2, Len(ref))

\* a || b on strings: the empty string is falsy
OrElse(a, b) == IF a # <<>> THEN a ELSE b

RunListRequest(ref) ==
  LET branchName == OrElse(GetBranchName(ref), ref)
  IN IF branchName # <<>>
       THEN [branch |-> branchName, per_page |-> 5, filter |-> ""]
       ELSE [branch |-> <<>>, per_page |-> 10, filter |-> ""]

GetWorkflowRunIds(in) ==
  IF ~StatusOk(in.status)
    THEN Thrown("getWorkflowRunIds", "getWorkflowRunIds",
                RunListRequest(in.ref),
                Expected200("Failed to get Workflow runs", in.status))
    ELSE Returned("getWorkflowRunIds", RunListRequest(in.ref), in.runs)

GetWorkflowRunUrl(in) ==
  IF ~StatusOk(in.status)
    THEN Thrown("getWorkflowRunUrl", "getWorkflowRunUrl", NoRequest,
                Expected200("Failed to get Workflow Run state", in.status))
    ELSE Returned("getWorkflowRunUrl", NoRequest, in.run.html_url)

GetWorkflowRunState(in) ==
  IF ~StatusOk(in.status)
    THEN Thrown("getWorkflowRunState", "getWorkflowRunState", NoRequest,
                Expected200("Failed to get Workflow Run state", in.status))
    ELSE Returned("getWorkflowRunState", NoRequest,
                  [status |-> in.run.status,
                   conclusion |-> in.run.conclusion])

\* job.steps?.map(step => step.name) || []
JobStepNames(job) ==
  IF job.stepsDefined THEN [i \in DOMAIN job.steps |-> job.steps[i].name]
  ELSE <<>>

\* jobs.flatMap(job => job.steps)
RECURSIVE FlatSteps(_)
FlatSteps(jobs) ==
  IF jobs = <<>> THEN <<>>
  ELSE JobStepNames(Head(jobs)) \o FlatSteps(Tail(jobs))

\* faulty variant: every name is kept
KeepAll(names) == names

\* Array.from(new Set(names)): a name stays where it first occurred
RECURSIVE Dedupe(_)
Dedupe(names) ==
  IF names = <<>> THEN <<>>
  ELSE LET front == Dedupe(SubSeq(names, 1, Len(names) - 1))
           last == names[Len(names)]
       IN IF \E i \in DOMAIN front : front[i] = last THEN front
          ELSE Append(front, last)

GetWorkflowRunJobSteps(in) ==
  IF ~StatusOk(in.status)
    THEN Thrown("getWorkflowRunJobSteps", "getWorkflowRunJobs", NoRequest,
                Expected200("Failed to get Workflow Run Jobs", in.status))
    ELSE Returned("getWorkflowRunJobSteps", NoRequest,
                  Dedupe(FlatSteps(in.jobs)))

LatestJobsRequest == [branch |-> <<>>, per_page |-> 0, filter |-> "latest"]

JobsError(status) == Expected200("Failed to get Jobs for Workflow Run", status)

\* faulty variant: every job that did not succeed counts as failed
IsFailedJobNotSuccess(job) == job.conclusion # "success"

\* job => job.conclusion === 'failure'
IsFailedJob(job) == job.conclusion = "failure"

\* one entry of the list getWorkflowRunFailedJobs returns
FailedJob(job) ==
  [id |-> job.id, name |-> job.name, status |-> job.status,
   conclusion |-> job.conclusion,
   steps |-> IF job.stepsDefined
               THEN [i \in DOMAIN job.steps |->
                       [name |-> job.steps[i].name,
                        status |-> job.steps[i].status,
                        conclusion |-> job.steps[i].conclusion,
                        number |-> job.steps[i].number]]
               ELSE <<>>,
   url |-> job.html_url]

RECURSIVE FailedJobs(_)
FailedJobs(jobs) ==
  IF jobs = <<>> THEN <<>>
  ELSE (IF IsFailedJob(Head(jobs)) THEN <<FailedJob(Head(jobs))>> ELSE <<>>)
         \o FailedJobs(Tail(jobs))

GetWorkflowRunFailedJobs(in) ==
  IF ~StatusOk(in.status)
    THEN Thrown("getWorkflowRunFailedJobs", "getWorkflowRunJobFailures",
                LatestJobsRequest, JobsError(in.status))
  ELSE IF Len(FailedJobs(in.jobs)) <= 0
    THEN [Returned("getWorkflowRunFailedJobs", LatestJobsRequest, <<>>)
            EXCEPT !.warnings =
              <<Msg("Failed to find failed Jobs for Workflow Run ",
                    ToString(in.runId))>>]
  ELSE Returned("getWorkflowRunFailedJobs", LatestJobsRequest,
                FailedJobs(in.jobs))

Undefined == "undefined"

\* job => job.status === 'in_progress' || job.status === 'completed'
IsActiveJob(job) == job.status \in {"in_progress", Completed}

GetWorkflowRunActiveJobUrl(in) ==
  LET active == SelectSeq(in.jobs, IsActiveJob)
  IN IF ~StatusOk(in.status)
       THEN Thrown("getWorkflowRunActiveJobUrl", "getWorkflowRunActiveJobUrl",
                   LatestJobsRequest, JobsError(in.status))
     ELSE IF Len(active) <= 0
       THEN Returned("getWorkflowRunActiveJobUrl", LatestJobsRequest,
                     Undefined)
     ELSE Returned("getWorkflowRunActiveJobUrl", LatestJobsRequest,
                   IF active[1].html_url # Null THEN active[1].html_url
                   ELSE "GitHub failed to return the URL")

GwGetWorkflowId ==
  /\ gwIn.kind = "getWorkflowId"
  /\ gwOut.wrapper = "none"
  /\ gwOut' = GetWorkflowId(gwIn.filename, gwIn.pages)
  /\ UNCHANGED <<gwIn, mainVars>>

GwGetWorkflowRunIds ==
  /\ gwIn.kind = "getWorkflowRunIds"
  /\ gwOut.wrapper = "none"
  /\ gwOut' = GetWorkflowRunIds(gwIn)
  /\ UNCHANGED <<gwIn, mainVars>>

GwGetWorkflowRunUrl ==
  /\ gwIn.kind = "getWorkflowRunUrl"
  /\ gwOut.wrapper = "none"
  /\ gwOut' = GetWorkflowRunUrl(gwIn)
  /\ UNCHANGED <<gwIn, mainVars>>

GwGetWorkflowRunState ==
  /\ gwIn.kind = "getWorkflowRunState"
  /\ gwOut.wrapper = "none"
  /\ gwOut' = GetWorkflowRunState(gwIn)
  /\ UNCHANGED <<gwIn, mainVars>>

GwGetWorkflowRunJobSteps ==
  /\ gwIn.kind = "getWorkflowRunJobSteps"
  /\ gwOut.wrapper = "none"
  /\ gwOut' = GetWorkflowRunJobSteps(gwIn)
  /\ UNCHANGED <<gwIn, mainVars>>

GwGetWorkflowRunFailedJobs ==
  /\ gwIn.kind = "getWorkflowRunFailedJobs"
  /\ gwOut.wrapper = "none"
  /\ gwOut' = GetWorkflowRunFailedJobs(gwIn)
  /\ UNCHANGED <<gwIn, mainVars>>

GwGetWorkflowRunActiveJobUrl ==
  /\ gwIn.kind = "getWorkflowRunActiveJobUrl"
  /\ gwOut.wrapper = "none"
  /\ gwOut' = GetWorkflowRunActiveJobUrl(gwIn)
  /\ UNCHANGED <<gwIn, mainVars>>

GwInit ==
  /\ MainInit
  /\ exists = {}
  /\ gwIn \in GwInputs
  /\ gwOut = NoCall

GwNext ==
  \/ GwGetWorkflowId
  \/ GwGetWorkflowRunIds
  \/ GwGetWorkflowRunUrl
  \/ GwGetWorkflowRunState
  \/ GwGetWorkflowRunJobSteps
  \/ GwGetWorkflowRunFailedJobs
  \/ GwGetWorkflowRunActiveJobUrl

GwSpec == GwInit /\ [][GwNext]_vars

----------------------------------------------------------------------------
(* Properties *)

PhaseOrder == <<"config", "init", "workflowId", "dispatch", "correlate", "wait">>

IsPrefix(a, b) == Len(a) <= Len(b) /\ SubSeq(b, 1, Len(a)) = a

Range(f) == {f[i] : i \in DOMAIN f}

\* the remote endpoints each phase of run() may call
CallsOf(phase) ==
  CASE phase = "workflowId" -> {"listRepoWorkflows"}
    [] phase = "dispatch" -> {"createWorkflowDispatch"}
    [] phase = "correlate" ->
         {"listWorkflowRuns", "listJobsForWorkflowRun", "getWorkflowRun"}
    [] phase = "wait" -> {"listJobsForWorkflowRun", "getWorkflowRun"}
    [] OTHER -> {}

CorrEnded == corrOutcome \in {"found", "none", "raised"}

C2_PhasesInOrder ==
  /\ [](/\ IsPrefix(phases, PhaseOrder)
        /\ lastCall # "none" => lastCall \in CallsOf(phases[Len(phases)])
        /\ dispatchCount = (IF "dispatch" \in Range(phases) THEN 1 ELSE 0))
  /\ [][error # NoError =>
          /\ phases' = phases
          /\ dispatchCount' = dispatchCount
          /\ lastCall' = "none"]_vars

C2_Witness ==
  /\ pc = "done"
  /\ phases = <<"config", "init", "workflowId", "dispatch">>
  /\ dispatchCount = 1
  /\ error # NoError

\* C3: when getWorkflowRunId returns a run ID, that ID is in the run list
\* fetched in the round, it is the run probed last, one of the step names
\* that probe returned contains the marker, and the run is one whose steps
\* embed the marker; when exactly one run embeds the marker, it is that run.
C3_ReturnedRunMatched ==
  (pc = "afterCorr" /\ corrOutcome = "found") =>
    /\ workflowRunId \in Range(workflowRunIds)
    /\ probed.id = workflowRunId
    /\ \E step \in probed.steps : RegexTest(DISTINCT_ID, step)
    /\ workflowRunId \in markerIn
    /\ Cardinality(markerIn) = 1 => markerIn = {workflowRunId}

C3_Witness ==
  /\ pc = "afterCorr"
  /\ corrOutcome = "found"
  /\ Len(workflowRunIds) = 3
  /\ markerIn = {workflowRunId}
  /\ workflowRunId = workflowRunIds[2]

Branched ==
  /\ corrOutcome \in {"found", "none"}
  /\ pc \in {"urlLoop", "waitLoop", "roeLoop", "logFailure", "catch", "done"}

\* C5: once run() is past the Correlator, the Waiter has been entered exactly
\* when the Correlator returned a run ID, and with that ID; when it returned
\* no run the Waiter is not entered and the one failure message is
\* 'Did not receive workflowRunId'.
C5_WaiterIffRunId ==
  Branched =>
    IF corrOutcome = "found"
      THEN waitOutcome # "idle" /\ waitRunId = workflowRunId
      ELSE /\ waitOutcome = "idle"
           /\ "wait" \notin Range(phases)
           /\ failedMsgs = <<NoRunIdMessage>>

\* C6: run_id is set at most once; it is set exactly when the Correlator has
\* returned a run ID, to that ID; it is set before the Waiter starts and
\* stays set whatever the Waiter's outcome.
C6_RunIdOutput ==
  /\ Len(runIdOut) <= 1
  /\ (runIdOut # <<>>) <=> (corrOutcome = "found")
  /\ corrOutcome = "found" => runIdOut = <<workflowRunId>>
  /\ waitOutcome # "idle" => runIdOut = <<waitRunId>>

C6_Witness ==
  /\ pc = "done"
  /\ waitOutcome = "failed"
  /\ runIdOut = <<waitRunId>>

\* C7: the Waiter returns true exactly when a poll observes
\* completed/success, after any number of polls that observed a state not
\* completed; setFailed is not called and no failed-jobs fetch is made.
C7_SuccessAfterPolling ==
  /\ runState = [status |-> Completed, conclusion |-> Success] =>
       waitOutcome = "succeeded"
  /\ waitOutcome = "succeeded" =>
       /\ runState = [status |-> Completed, conclusion |-> Success]
       /\ pc = "done"
       /\ failedMsgs = <<>>
       /\ failedJobsFetches = 0

C7_Witness ==
  /\ waitOutcome = "succeeded"
  /\ polls >= 2
  /\ failedJobsFetches = 0

\* C8: when run() has ended after a poll observed a completed run with one of
\* the six failure conclusions, one failed-jobs fetch was made, the Waiter
\* returned false and the one failure message is the conclusion.
C8_FailureConclusionReported ==
  (pc = "done" /\ runState.status = Completed
     /\ runState.conclusion \in FailureConclusions) =>
    /\ failedJobsFetches = 1
    /\ waitOutcome = "failed"
    /\ failedMsgs = << <<runState.conclusion>> >>

\* C9: the Waiter ends as Succeeded, Failed or UnknownConclusion only on a
\* completed state polled in a round that started before the overall
\* deadline had elapsed; with no such state it does not end that way.
C9_TerminalOnlyBeforeDeadline ==
  (waitOutcome \in {"succeeded", "failed", "unknown"} \/ pc = "logFailure") =>
    roundInTime

\* C10: when a poll observes a completed run whose conclusion is none of the
\* seven recognised values, the Waiter ends at once: the one failure message
\* is 'Unknown conclusion: <value>', no failed-jobs fetch is made and it
\* returns false.
C10_UnknownConclusion ==
  (runState.status = Completed
     /\ runState.conclusion \notin ({Success} \cup FailureConclusions)) =>
    /\ pc = "done"
    /\ waitOutcome = "unknown"
    /\ failedMsgs = <<Msg("Unknown conclusion: ", runState.conclusion)>>
    /\ failedJobsFetches = 0

C10_Witness ==
  /\ pc = "done"
  /\ waitOutcome = "unknown"
  /\ runState.conclusion = Null
  /\ polls > 0

\* C11: retryOrDie returns the first non-empty list its attempt function
\* produces: while it loops every attempt so far returned an empty list and,
\* as long as the pauses fit inside the deadline, another attempt is made;
\* when it has returned, the attempts were k empty ones and one more, and the
\* result is the non-empty list that last attempt produced.
C11_FirstNonEmptyReturned ==
  /\ pc = "rodLoop" =>
       /\ rodCalls = rodEmpties
       /\ now - rodStartTime < rodTimeoutMs => rodElapsedTime < rodTimeoutMs
  /\ pc \in {"probe", "url"} =>
       /\ rodCalls = rodEmpties + 1
       /\ workflowRunIds # <<>>
       /\ workflowRunIds = Listing(exists)

C11_Witness ==
  /\ pc = "probe"
  /\ rodEmpties = 2
  /\ rodCalls = 3
  /\ Len(workflowRunIds) = 1

\* C12: retryOrDie whose attempt function never returns a non-empty list
\* fails with 'Timed out while attempting to fetch data': once the elapsed
\* time it read has reached timeoutMs its next step throws that error and
\* returns nothing; the error is thrown only after timeoutMs has elapsed and
\* only empty lists were returned; the pauses bound the number of attempts;
\* and retryOrDie does not loop forever.
C12_NeverNonEmptyTimesOut ==
  /\ [](pc = "rodLoop" =>
          (rodCalls - 1) * RetryOrDiePauseMs <= rodTimeoutMs)
  /\ [][(pc = "rodLoop" /\ rodElapsedTime >= rodTimeoutMs) =>
          /\ error' = RodTimeoutError
          /\ pc' = "catch"
          /\ corrOutcome' = "raised"
          /\ workflowRunId' = NoRun]_vars
  /\ [][(pc = "rodLoop" /\ error' = RodTimeoutError) =>
          /\ rodCalls > 0
          /\ rodCalls = rodEmpties
          /\ now - rodStartTime >= rodTimeoutMs]_vars
  /\ (pc = "rodLoop") ~> (pc # "rodLoop")

C12_Witness ==
  /\ pc = "catch"
  /\ error = RodTimeoutError
  /\ corrOutcome = "raised"
  /\ cfg.workflowTimeoutSeconds = MaxTimeoutSeconds

\* C13: retryOrDie returns a list only from an attempt invoked before
\* timeoutMs had elapsed since its start: a non-empty list first produced at
\* or after the deadline is not returned.
C13_NoReturnAfterDeadline ==
  pc \in {"probe", "url"} => rodElapsedTime < rodTimeoutMs

\* C14: retryOnError returns func's result on its first success; when func
\* fails with the time since the start at or over the timeout, that same
\* error is thrown up; when it fails earlier, one warning is logged and func
\* is invoked again after a pause of one second.
C14_RetryOnError ==
  /\ pc = "roeLoop" =>
       /\ roeWarnings = roeCalls
       /\ error = NoError
       /\ roeCalls > 0 =>
            /\ lastError \in RemoteErrors
            /\ roeFailedAt < RunStateRetryTimeoutMs
            /\ now - roeStartTime = roeFailedAt + RetryOnErrorPauseMs
  /\ (pc = "waitLoop" /\ lastCall = "getWorkflowRun") =>
       /\ lastError = NoError
       /\ roeCalls = roeWarnings + 1
  /\ (waitOutcome # "idle" /\ lastCall = "getWorkflowRun"
        /\ lastError # NoError) =>
       IF roeFailedAt >= RunStateRetryTimeoutMs
         THEN pc = "catch" /\ error = lastError /\ error \in RemoteErrors
         ELSE pc = "roeLoop"

C14_Witness ==
  /\ pc = "waitLoop"
  /\ lastCall = "getWorkflowRun"
  /\ roeWarnings = 1
  /\ roeCalls = 2

\* C15: the inputs sent with the dispatch request hold distinct_id with the
\* marker as its value, whatever the marker and whether or not the
\* configured inputs already hold a distinct_id, together with every other
\* configured input unchanged and nothing else.
C15_DispatchInputs ==
  /\ dispatchStatus # 0 =>
       /\ <<"distinct_id", DISTINCT_ID>> \in dispatchedInputs
       /\ \A entry \in dispatchedInputs :
            entry[1] = "distinct_id" => entry[2] = DISTINCT_ID
       /\ \A entry \in cfg.workflowInputs :
            entry[1] # "distinct_id" => entry \in dispatchedInputs
       /\ Keys(dispatchedInputs) = Keys(cfg.workflowInputs) \cup {"distinct_id"}
       /\ Cardinality(dispatchedInputs) = Cardinality(Keys(dispatchedInputs))
  /\ cfg # NoConfig =>
       \A marker \in {DISTINCT_ID, OtherId, "mine", ""} :
         {entry \in DispatchInputs(cfg.workflowInputs, marker) :
            entry[1] = "distinct_id"} = {<<"distinct_id", marker>>}

C15_Witness ==
  /\ dispatchStatus = 204
  /\ <<"distinct_id", "mine">> \in cfg.workflowInputs
  /\ dispatchedInputs = {<<"cake", "pie">>, <<"distinct_id", DISTINCT_ID>>}

\* C16: dispatchWorkflow resolves without error exactly when the response
\* status is 204; for any other status it fails with 'Failed to dispatch
\* action, expected 204 but received <status>' holding the received status,
\* and that message is the failure reason of the invocation.
C16_DispatchStatus ==
  /\ (dispatchStatus = 204 /\ phases[Len(phases)] = "dispatch") =>
       /\ error = NoError
       /\ pc = "corrBegin"
  /\ dispatchStatus \notin {0, 204} =>
       /\ pc \in {"catch", "done"}
       /\ phases[Len(phases)] = "dispatch"
       /\ error = <<"Failed to dispatch action, expected 204 but received ",
                    ToString(dispatchStatus)>>
       /\ pc = "done" => failedMsgs = <<error>>

C16_Witness ==
  /\ pc = "done"
  /\ dispatchStatus = 200
  /\ failedMsgs = <<DispatchError(200)>>

\* the last step made a call that probes a candidate run for the Correlator
InProbe ==
  /\ corrOutcome \in {"searching", "raised"}
  /\ waitOutcome = "idle"
  /\ lastCall \in {"listJobsForWorkflowRun", "getWorkflowRun"}

\* C17: a 'Not Found' error raised while a candidate run is probed is
\* swallowed and the Correlator goes on with the next candidate of the same
\* round; any other error raised while a candidate is probed leaves
\* getWorkflowRunId at once as that error, and no candidate or round follows.
C17_NotFoundSwallowed ==
  /\ []((InProbe /\ lastError = NotFound) =>
          /\ pc = "probe"
          /\ error = NoError
          /\ corrOutcome = "searching")
  /\ []((InProbe /\ lastError \notin {NoError, NotFound}) =>
          /\ pc = "catch"
          /\ error = lastError
          /\ corrOutcome = "raised")
  /\ [][(pc \in {"probe", "url"} /\ lastError' = NotFound) =>
          /\ idx' = idx + 1
          /\ workflowRunIds' = workflowRunIds
          /\ corrElapsedTime' = corrElapsedTime]_vars
  /\ [][corrOutcome = "raised" =>
          /\ lastCall' = "none"
          /\ corrOutcome' = "raised"]_vars

C17_Witness ==
  /\ pc = "probe"
  /\ lastError = NotFound
  /\ idx = 2
  /\ Len(workflowRunIds) = 3

\* C18: in every round the budget handed to retryOrDie is the smaller of
\* 60 s and what remains of the overall timeout when the round starts.
C18_FetchBudgetRemaining ==
  (pc = "rodLoop" /\ corrElapsedTime < TimeoutMs) =>
    rodTimeoutMs = Min(WORKFLOW_FETCH_TIMEOUT_MS, TimeoutMs - corrElapsedTime)

\* C19: no round of the Correlator (run-list fetch, candidate probes) starts
\* once the time elapsed since getWorkflowRunId started has reached the
\* overall timeout.
C19_NoRoundAfterDeadline ==
  pc \in {"rodLoop", "probe", "url"} => corrElapsedTime < TimeoutMs

\* the timeout errors of retryOrDie, retryOnError and the Waiter's loop
IsTimeoutError(e) ==
  \/ e = RodTimeoutError
  \/ e = RetryTimeoutError("getWorkflowRunState")
  \/ \E id \in RunIds : e = WaitTimeoutError(id)

\* C20: a timeout error is never swallowed: when the loop of retryOrDie, of
\* retryOnError or of the Waiter ends on its deadline the timeout error is
\* thrown, it reaches run()'s catch, no remote call is made after it, and it
\* is the one failure message of the invocation.
C20_TimeoutFatal ==
  /\ [](waitOutcome = "timeout" => error = WaitTimeoutError(waitRunId))
  /\ [](IsTimeoutError(error) =>
          /\ pc \in {"catch", "done"}
          /\ pc = "done" => failedMsgs = <<error>>)
  /\ [][(pc = "rodLoop" /\ ~(rodElapsedTime < rodTimeoutMs)) =>
          error' = RodTimeoutError]_vars
  /\ [][(pc = "roeLoop" /\ ~(roeElapsedTime < RunStateRetryTimeoutMs)) =>
          error' = RetryTimeoutError("getWorkflowRunState")]_vars
  /\ [][(pc = "waitLoop" /\ ~(waitElapsedTime < TimeoutMs)) =>
          error' = WaitTimeoutError(waitRunId)]_vars
  /\ [][IsTimeoutError(error) =>
          /\ error' = error
          /\ lastCall' = "none"]_vars

C20_Witness ==
  /\ pc = "done"
  /\ waitOutcome = "timeout"
  /\ polls > 0
  /\ failedMsgs = <<WaitTimeoutError(waitRunId)>>

\* C21: run() always terminates: every behaviour in which each awaited call
\* or timer settles reaches the end of run() and stays there, so each of the
\* wait loops was left on its deadline or its terminal condition.
C21_RunTerminates ==
  /\ <>(pc = "done")
  /\ [][pc = "done" => pc' = "done"]_vars

C21_Witness ==
  /\ pc = "done"
  /\ corrOutcome = "none"
  /\ timeOut
  /\ cfg.workflowTimeoutSeconds = MaxTimeoutSeconds

\* C22: failing to obtain the active-job URL is not fatal: whatever the URL
\* fetch meets, the Waiter stays in the fetch or goes on to poll the run
\* state, and no error is raised.
C22_UrlFetchNotFatal ==
  [][pc = "urlLoop" =>
       /\ pc' \in {"urlLoop", "waitLoop"}
       /\ error' = NoError]_vars

C24_MarkerNeverReused ==
  /\ dispatchStatus # 0 =>
       <<"distinct_id", markersUsed[Len(markersUsed)]>> \in dispatchedInputs
  /\ corrOutcome = "found" /\ pc = "afterCorr" =>
       \E step \in probed.steps :
         RegexTest(markersUsed[Len(markersUsed)], step)
  /\ \A i, j \in DOMAIN markersUsed :
       i # j => markersUsed[i] # markersUsed[j]

\* C25: a read wrapper that received a response whose status is not 200 does
\* not return: it raises an error that states the expected code 200 and the
\* received code, after logging that error once.
C25_Non200Raises ==
  gwOut.wrapper # "none" =>
    LET seen == IF gwIn.kind = "getWorkflowId"
                  THEN {gwIn.pages[i].status : i \in 1..gwOut.pagesFetched}
                  ELSE {gwIn.status}
    IN \A st \in seen \ {200} :
         /\ ~gwOut.returned
         /\ Len(gwOut.error) = 3
         /\ gwOut.error[2] = ", expected 200 but received "
         /\ gwOut.error[3] = ToString(st)
         /\ Len(gwOut.logged) = 1
         /\ gwOut.logged[1][3] = gwOut.error

C25_Witness ==
  /\ gwOut.wrapper = "getWorkflowId"
  /\ gwOut.pagesFetched = 2
  /\ gwIn.pages[2].status = 204
  /\ ~gwOut.returned

Contains(text, part) ==
  \E start \in 0..(Len(text) - Len(part)) :
    SubSeq(text, start + 1, start + Len(part)) = part

\* C26: getWorkflowId returns the id of the first workflow, in listing order
\* across the pages, whose path contains the filename literally, fetches no
\* page after that workflow's page, never returns another workflow's id, and
\* fails with 'Unable to find ID for Workflow: <filename>' when no listed
\* workflow's path contains the filename (every fetched page answering 200).
C26_WorkflowIdByFilename ==
  gwOut.wrapper = "getWorkflowId" =>
    LET pages == gwIn.pages
        hits == UNION {{<<i, j>> : j \in {k \in DOMAIN pages[i].workflows :
                          Contains(pages[i].workflows[k].path, gwIn.filename)}} :
                       i \in DOMAIN pages}
        First(h) == \A g \in hits :
                      h[1] < g[1] \/ (h[1] = g[1] /\ h[2] <= g[2])
        AllOk(n) == \A i \in 1..n : pages[i].status = 200
    IN /\ \A h \in hits :
            (First(h) /\ AllOk(h[1])) =>
              /\ gwOut.returned
              /\ gwOut.result = pages[h[1]].workflows[h[2]].id
              /\ gwOut.pagesFetched = h[1]
       /\ (hits = {} /\ AllOk(Len(pages))) =>
            /\ ~gwOut.returned
            /\ gwOut.error =
                 <<"Unable to find ID for Workflow: ", gwIn.filename>>
            /\ gwOut.pagesFetched = Len(pages)
       /\ gwOut.returned => \E h \in hits : First(h)

C26_Witness ==
  /\ gwOut.wrapper = "getWorkflowId"
  /\ gwOut.returned
  /\ gwIn.filename = <<"a", ".", "y">>
  /\ gwIn.pages[1].workflows = <<WfAxy>>
  /\ gwOut.pagesFetched = 2
  /\ gwOut.result = 2

IsTagRef(ref) ==
  \E i \in 1..(Len(ref) - 1) : ref[i] = "refs" /\ ref[i + 1] = "tags"

\* C27: getWorkflowRunIds lists with the normalised branch name and page
\* size 5 when the configured ref names a branch, and without a branch
\* filter at page size 10 otherwise; it returns the listed run IDs in the
\* order received.
C27_RunListingRequest ==
  gwOut.wrapper = "getWorkflowRunIds" =>
    /\ IF IsTagRef(gwIn.ref)
         THEN /\ gwOut.request.branch = <<>>
              /\ gwOut.request.per_page = 10
         ELSE /\ gwOut.request.branch = GetBranchName(gwIn.ref)
              /\ gwOut.request.per_page = 5
    /\ gwOut.returned => gwOut.result = gwIn.runs

\* C28: getWorkflowRunJobSteps returns, for a 200 response, the names of the
\* steps of all the jobs, each name once; a job without steps adds nothing.
C28_StepNamesOnce ==
  (gwOut.wrapper = "getWorkflowRunJobSteps" /\ gwIn.status = 200) =>
    LET jobs == gwIn.jobs
        names == UNION {{jobs[i].steps[k].name : k \in DOMAIN jobs[i].steps} :
                        i \in {j \in DOMAIN jobs : jobs[j].stepsDefined}}
    IN /\ gwOut.returned
       /\ {gwOut.result[i] : i \in DOMAIN gwOut.result} = names
       /\ \A i, j \in DOMAIN gwOut.result :
            i # j => gwOut.result[i] # gwOut.result[j]

C28_Witness ==
  /\ gwOut.wrapper = "getWorkflowRunJobSteps"
  /\ gwOut.returned
  /\ gwIn.jobs = <<JobBuild, JobTest>>
  /\ Len(gwOut.result) = 2

\* C29: getWorkflowRunFailedJobs returns, for a 200 response, one entry for
\* each job whose conclusion is 'failure' and for no other job, in listing
\* order, with the job's id, name, status, conclusion, URL and steps (none
\* when the job has none); when no job failed it returns the empty list
\* after one warning, without raising.
C29_FailedJobsListed ==
  (gwOut.wrapper = "getWorkflowRunFailedJobs" /\ gwIn.status = 200) =>
    LET jobs == gwIn.jobs
        failed == {i \in DOMAIN jobs : jobs[i].conclusion = "failure"}
        PlaceOf(i) == Cardinality({j \in failed : j <= i})
    IN /\ gwOut.returned
       /\ gwOut.error = NoError
       /\ Len(gwOut.result) = Cardinality(failed)
       /\ \A i \in failed :
            LET r == gwOut.result[PlaceOf(i)]
                n == IF jobs[i].stepsDefined THEN Len(jobs[i].steps) ELSE 0
            IN /\ r.id = jobs[i].id
               /\ r.name = jobs[i].name
               /\ r.status = jobs[i].status
               /\ r.conclusion = "failure"
               /\ r.url = jobs[i].html_url
               /\ Len(r.steps) = n
               /\ \A k \in 1..n :
                    /\ r.steps[k].name = jobs[i].steps[k].name
                    /\ r.steps[k].number = jobs[i].steps[k].number
                    /\ r.steps[k].status = jobs[i].steps[k].status
                    /\ r.steps[k].conclusion = jobs[i].steps[k].conclusion
       /\ Len(gwOut.warnings) = (IF failed = {} THEN 1 ELSE 0)

C29_Witness ==
  /\ gwOut.wrapper = "getWorkflowRunFailedJobs"
  /\ gwOut.returned
  /\ gwIn.jobs = <<JobDocs, JobBuild>>
  /\ Len(gwOut.result) = 1
  /\ Len(gwOut.result[1].steps) = 2

\* C30: getWorkflowRunActiveJobUrlRetry returns as soon as a fetch finds an
\* active job, pauses 200 ms after a fetch that finds none, returns
\* 'Unable to fetch URL' without an error once the elapsed time it read has
\* reached its timeout, which is then over, and raises only when a fetch
\* itself raised.
C30_ActiveJobUrlRetry ==
  /\ [][(pc = "urlLoop" /\ urlElapsedTime >= ActiveJobUrlTimeoutMs) =>
          /\ lastCall' = "none"
          /\ pc' = "waitLoop"
          /\ error' = NoError
          /\ now' = now
          /\ now - urlStartTime >= ActiveJobUrlTimeoutMs]_vars
  /\ [][(pc = "urlLoop" /\ urlElapsedTime < ActiveJobUrlTimeoutMs) =>
          lastCall' = "listJobsForWorkflowRun"]_vars
  /\ [][(pc = "urlLoop" /\ pc' = "urlLoop") =>
          /\ now' >= now + ActiveJobUrlPauseMs
          /\ now' <= now + MaxLatency + ActiveJobUrlPauseMs]_vars
  /\ [][(pc = "urlLoop" /\ lastCall' # "none" /\ pc' = "waitLoop") =>
          now' <= now + MaxLatency]_vars
  /\ [][(pc = "urlLoop" /\ lastError' = NoError) => error' = NoError]_vars

C30_Witness ==
  /\ pc = "waitLoop"
  /\ lastCall = "none"
  /\ polls = 0
  /\ now >= ActiveJobUrlTimeoutMs
  /\ error = NoError

C32_FirstMatchEndsSearch ==
  /\ [][(pc = "probe" /\ pc' = "probe") =>
          /\ idx' = idx + 1
          /\ workflowRunIds' = workflowRunIds]_vars
  /\ [][(pc = "probe" /\ pc' = "url") =>
          /\ idx' = idx
          /\ probed'.id = workflowRunIds[idx]]_vars
  /\ [][(pc = "url" /\ corrOutcome' = "found") =>
          workflowRunId' = probed.id]_vars
  /\ [][pc = "url" => pc' \notin {"probe", "corrLoop", "rodLoop"}]_vars

RoundStartsInTime ==
  /\ pc = "rodLoop"
  /\ rodCalls = 0
  /\ corrElapsedTime < TimeoutMs

\* C33: when every remote call succeeds and a round starts before the
\* overall deadline with a run that exists and has a step name holding the
\* marker, getWorkflowRunId returns the ID of such a run, however many
\* unrelated runs of the workflow there are.
C33_MarkedRunFound ==
  (/\ [](lastError = NoError)
   /\ <>(RoundStartsInTime /\ markerIn # {}))
  => <>(corrOutcome = "found" /\ workflowRunId \in markerIn)

\* the newest run that holds the marker is among the PerPage newest runs
MarkedRunListed ==
  crowd + Cardinality({id \in exists : id >= Max(markerIn)}) <= PerPage

\* C33, amended: the same, provided the run that holds the marker is and
\* stays among the 5 newest runs of the workflow, which are the runs a round
\* lists.
C33_ListedMarkedRunFound ==
  (/\ [](lastError = NoError)
   /\ [](markerIn # {} => MarkedRunListed)
   /\ <>(RoundStartsInTime /\ markerIn # {}))
  => <>(corrOutcome = "found" /\ workflowRunId \in markerIn)

C33_Witness ==
  /\ pc = "afterCorr"
  /\ corrOutcome = "found"
  /\ crowd = PerPage - 1
  /\ workflowRunId \in markerIn
  /\ lastError = NoError

\* C34: retryOnError never raises 'Timeout exceeded while attempting to
\* retry <name>': when func keeps failing, the error that leaves
\* retryOnError is the last error func threw, thrown at or after the
\* timeout.
C34_LastErrorSurfaced ==
  /\ error # RetryTimeoutError("getWorkflowRunState")
  /\ pc = "roeLoop" => roeElapsedTime < RunStateRetryTimeoutMs
  /\ (pc = "catch" /\ waitOutcome = "raised" /\ lastCall = "getWorkflowRun") =>
       /\ error = lastError
       /\ error \in RemoteErrors
       /\ roeFailedAt >= RunStateRetryTimeoutMs

C34_Witness ==
  /\ pc = "catch"
  /\ waitOutcome = "raised"
  /\ lastCall = "getWorkflowRun"
  /\ roeFailedAt >= RetryOnErrorPauseMs
  /\ error = lastError

\* C35: a run-state fetch that fails before 400 ms have passed since
\* retryOnError started does not end the Waiter: a warning is logged and the
\* fetch is made again after a pause of 1 s; a fetch that fails at or after
\* 400 ms ends the Waiter with the error it failed with.
C35_FetchFailureRetried ==
  [][(pc = "roeLoop" /\ lastCall' = "getWorkflowRun"
      /\ lastError' # NoError) =>
       IF roeFailedAt' < RunStateRetryTimeoutMs
         THEN /\ pc' = "roeLoop"
              /\ error' = NoError
              /\ waitOutcome' = waitOutcome
              /\ failedMsgs' = failedMsgs
              /\ roeWarnings' = roeWarnings + 1
              /\ now' - roeStartTime = roeFailedAt' + RetryOnErrorPauseMs
              /\ roeElapsedTime' < RunStateRetryTimeoutMs
         ELSE /\ pc' = "catch"
              /\ error' = lastError'
              /\ waitOutcome' = "raised"]_vars

C35_Witness ==
  /\ pc = "roeLoop"
  /\ roeWarnings = 1
  /\ roeFailedAt = 0
  /\ lastError = NotFound
  /\ polls >= 1

\* C36: when every remote call succeeds and the run is completed with
\* conclusion success from some instant before the Waiter's deadline on (no
\* fetch sent at or after the deadline reports a state that is not
\* completed, and a completed state has conclusion success), a Waiter that
\* was started ends as Succeeded and never with the Timeout error.
C36_CompletedRunSucceeds ==
  (/\ [](lastError = NoError)
   /\ [](runState.status = Completed => runState.conclusion = Success)
   /\ []((pc = "waitLoop" /\ lastCall = "getWorkflowRun") =>
           roeStartTime - waitStartTime < TimeoutMs)
   /\ <>(pc = "urlLoop"))
  => (<>(waitOutcome = "succeeded") /\ [](waitOutcome # "timeout"))

C36_Witness ==
  /\ pc = "done"
  /\ waitOutcome = "succeeded"
  /\ polls = 1
  /\ cfg.workflowTimeoutSeconds = 1
  /\ cfg.pollIntervalMs > 1000
  /\ error = NoError

\* C37: once the step names of a candidate have been seen to hold the
\* marker, getWorkflowRunId ends with that run's ID returned and the run_id
\* output set, or with an error raised.
C37_MatchNeverLost ==
  [][pc = "url" =>
       \/ /\ pc' = "afterCorr"
          /\ corrOutcome' = "found"
          /\ workflowRunId' = probed.id
          /\ runIdOut' = Append(runIdOut, probed.id)
       \/ /\ pc' = "catch"
          /\ error' # NoError]_vars

\* C38: every invocation of func by retryOnError begins before the time
\* elapsed since retryOnError started has reached the timeout.
C38_FuncInvokedBeforeDeadline ==
  [][(pc = "roeLoop" /\ lastCall' = "getWorkflowRun") =>
       now - roeStartTime < RunStateRetryTimeoutMs]_vars

====
